---- MODULE Spec2Model ----
(***************************************************************************)
(* Video task reconciliation of the gateway (controller/task_video.go)     *)
(* and the Volc Ark video adaptor's status normalisation                   *)
(* (relay/channel/task/volcvideo ParseTaskResult).                         *)
(*                                                                         *)
(* Rates are fixed-point numbers with RatioDen units per 1.0, so 0.5 is    *)
(* RatioDen \div 2.  Times are epoch seconds counted by clock.             *)
(***************************************************************************)
EXTENDS Integers, Sequences, FiniteSets, TLC

VARIABLES
    store,      \* Task Store: task id -> persisted model.Task row
    ledger,     \* task id -> quota ledger rows of the task's owner and channel
    clock,      \* time.Now().Unix()
    passes,     \* invocations of UpdateVideoTaskAll started so far
    pc,         \* poller -> "idle" | "channels" | "tasks"
    adaptor,    \* poller -> relay.GetTaskAdaptor(platform) # nil in this pass
    chans,      \* poller -> taskChannelM entries not yet ranged over
    cur,        \* poller -> task ids left in the running channel's loop
    taskM,      \* poller -> taskM, the *model.Task values loaded by the caller
    listed,     \* poller -> taskChannelM as the caller passed it
    outcome,    \* poller -> channel -> how updateVideoTaskAll left it in this pass
    attempts,   \* poller -> task id -> the updateVideoSingleTask calls of this pass,
                \* each as "did it return an error"
    last,       \* the latest step's inputs and what it did
    usage,      \* the usage and rates of the latest settlement run on its own
    parsed,     \* a vendor payload and what ParseTaskResult made of it
    ctxDone,    \* ctx of the running UpdateVideoTaskAll has been cancelled
    overlapped  \* two invocations of UpdateVideoTaskAll have been in flight at once

vars == <<store, ledger, clock, passes, pc, adaptor, chans, cur, taskM, listed, outcome,
          attempts, last, usage, parsed, ctxDone, overlapped>>

----------------------------------------------------------------------------
\* Bounds of the model

MaxPasses == 2
StartBalance == 20

AllTasks == {"t1", "t2", "t3"}
Channels == {1, 2}
Pollers == {1, 2}
ReservedSet == {0, 2, 5}
TokenSet == {0, 3}
RatioDen == 2
RatioSet == {0, 1, 2}
StatusIn == {"", "SUBMITTED", "QUEUED", "IN_PROGRESS", "SUCCESS", "FAILURE", "UNKNOWN"}
ProgressIn == {"", "60%"}

\* task.ChannelId: the caller groups the pending tasks by it
ChannelOf(t) == IF t = "t3" THEN 2 ELSE 1

----------------------------------------------------------------------------
\* model.TaskStatus values

TaskStatusSubmitted == "SUBMITTED"
TaskStatusQueued == "QUEUED"
TaskStatusInProgress == "IN_PROGRESS"
TaskStatusSuccess == "SUCCESS"
TaskStatusFailure == "FAILURE"
TaskStatusUnknown == "UNKNOWN"

Terminal(s) == s \in {TaskStatusSuccess, TaskStatusFailure}

\* a task as the submission path leaves it: reserved quota already debited
NewTask(q) ==
    [Status |-> TaskStatusSubmitted, Progress |-> "10%", Quota |-> q,
     StartTime |-> 0, FinishTime |-> 0, FailReason |-> ""]

NewLedger(q) ==
    [userQuota |-> StartBalance - q, logs |-> <<>>, usedQuota |-> 0,
     channelUsedQuota |-> 0, refunds |-> 0]

----------------------------------------------------------------------------
\* Ledger collaborator (package model); ok = the call returned no error

DecreaseUserQuota(led, quota, ok) ==
    IF ok THEN [led EXCEPT !.userQuota = @ - quota] ELSE led

IncreaseUserQuota(led, quota, ok) ==
    IF ok THEN [led EXCEPT !.userQuota = @ + quota] ELSE led

RecordLog(led, quota, what) ==
    [led EXCEPT !.logs = Append(@, [type |-> "system", quota |-> quota, what |-> what])]

RecordConsumeLog(led, quota) ==
    [led EXCEPT !.logs = Append(@, [type |-> "consume", quota |-> quota, what |-> "supplement"])]

UpdateUserUsedQuotaAndRequestCount(led, quota) ==
    [led EXCEPT !.usedQuota = @ + quota]

UpdateChannelUsedQuota(led, quota) ==
    [led EXCEPT !.channelUsedQuota = @ + quota]

----------------------------------------------------------------------------
\* Settlement arithmetic

DefaultRatioNone(r) == r

\* a rate that resolves to zero becomes 1.0 (model and completion rate only)
DefaultRatio(r) == IF r = 0 THEN RatioDen ELSE r

ToIntRounded(num, den) == (2 * num + den) \div (2 * den)

\* int(float64(TotalTokens) * completionRatio * modelRatio * groupRatio):
\* Go's conversion truncates toward zero.  For rates that are dyadic
\* fractions the float64 product is exact
ToInt(num, den) == num \div den

ActualQuota(tokens, modelRatio, completionRatio, groupRatio) ==
    LET mr == DefaultRatio(modelRatio)
        cr == DefaultRatio(completionRatio)
        raw == ToInt(tokens * cr * mr * groupRatio, RatioDen * RatioDen * RatioDen)
    IN  IF raw <= 0 /\ mr > 0 THEN 1 ELSE raw

\* lines 184-249: the ledger calls for a nonzero delta.  The consumption entry
\* and the usage counters, or the system log of a refund, are written only when
\* the quota call returned no error
SettleLedger(quotaDelta, ok, led) ==
    IF quotaDelta > 0
    THEN IF ok
         THEN UpdateChannelUsedQuota(
                  UpdateUserUsedQuotaAndRequestCount(
                      RecordConsumeLog(DecreaseUserQuota(led, quotaDelta, TRUE), quotaDelta),
                      quotaDelta),
                  quotaDelta)
         ELSE DecreaseUserQuota(led, quotaDelta, FALSE)
    ELSE IF ok
         THEN RecordLog(IncreaseUserQuota(led, -quotaDelta, TRUE), -quotaDelta, "adjust")
         ELSE IncreaseUserQuota(led, -quotaDelta, FALSE)

SettleStale(task, tokens, modelRatio, completionRatio, groupRatio, ok, led) ==
    LET actualQuota == ActualQuota(tokens, modelRatio, completionRatio, groupRatio)
        quotaDelta == actualQuota - task.Quota
    IN  IF quotaDelta = 0
        THEN [task |-> task, led |-> led]
        ELSE [task |-> task, led |-> SettleLedger(quotaDelta, ok, led)]

\* lines 176-252: the delta between the usage-based quota and task.Quota; a
\* nonzero delta goes to the ledger and task.Quota becomes actualQuota
Settle(task, tokens, modelRatio, completionRatio, groupRatio, ok, led) ==
    LET actualQuota == ActualQuota(tokens, modelRatio, completionRatio, groupRatio)
        quotaDelta == actualQuota - task.Quota
    IN  IF quotaDelta = 0
        THEN [task |-> task, led |-> led]
        ELSE [task |-> [task EXCEPT !.Quota = actualQuota],
              led |-> SettleLedger(quotaDelta, ok, led)]

RefundQuiet(task, ok, led) ==
    LET quota == task.Quota
        credited == IF ok THEN [led EXCEPT !.refunds = @ + 1] ELSE led
    IN  IF quota # 0 /\ ok
        THEN RecordLog(IncreaseUserQuota(credited, quota, ok), quota, "refund")
        ELSE led

\* lines 264-271: the refund of the Failure case; refunds counts the credits
\* this case has applied for the task
Refund(task, ok, led) ==
    LET quota == task.Quota
        credited == IF ok THEN [led EXCEPT !.refunds = @ + 1] ELSE led
    IN  IF quota # 0
        THEN RecordLog(IncreaseUserQuota(credited, quota, ok), quota, "refund")
        ELSE led

SetStartTimeAlways(t, now) == [t EXCEPT !.StartTime = now]

\* lines 115-117: start_time is written only while it is zero
SetStartTime(t, now) == IF t.StartTime = 0 THEN [t EXCEPT !.StartTime = now] ELSE t

\* lines 120-122 and 259-261: finish_time is written only while it is zero
SetFinishTime(t, now) == IF t.FinishTime = 0 THEN [t EXCEPT !.FinishTime = now] ELSE t

ProgressOverrideNever(t, progress) == t

\* lines 275-277: a non-empty progress of the result replaces the case's default
ProgressOverride(t, progress) ==
    IF progress # "" THEN [t EXCEPT !.Progress = progress] ELSE t

\* lines 103-277 of updateVideoSingleTask: the normalized result applied to the
\* loaded task.  err = the function returned an error before task.Update()
ApplyResult(task, res, now, modelRatio, completionRatio, groupRatio, ok, led) ==
    LET t0 == [task EXCEPT !.Status = res.Status]
        Override(t) == ProgressOverride(t, res.Progress)
    IN  CASE res.Status = "" ->
               [task |-> task, led |-> led, err |-> TRUE]
          [] res.Status = TaskStatusSubmitted ->
               [task |-> Override([t0 EXCEPT !.Progress = "10%"]), led |-> led, err |-> FALSE]
          [] res.Status = TaskStatusQueued ->
               [task |-> Override([t0 EXCEPT !.Progress = "20%"]), led |-> led, err |-> FALSE]
          [] res.Status = TaskStatusInProgress ->
               [task |-> Override(SetStartTime([t0 EXCEPT !.Progress = "30%"], now)),
                led |-> led, err |-> FALSE]
          [] res.Status = TaskStatusSuccess ->
               LET t1 == [SetFinishTime([t0 EXCEPT !.Progress = "100%"], now)
                             EXCEPT !.FailReason = res.Url]
                   s == IF res.TotalTokens > 0
                        THEN Settle(t1, res.TotalTokens, modelRatio, completionRatio,
                                    groupRatio, ok, led)
                        ELSE [task |-> t1, led |-> led]
               IN  [task |-> Override(s.task), led |-> s.led, err |-> FALSE]
          [] res.Status = TaskStatusFailure ->
               LET t1 == [SetFinishTime([t0 EXCEPT !.Progress = "100%"], now)
                             EXCEPT !.FailReason = res.Reason]
               IN  [task |-> Override(t1), led |-> Refund(t1, ok, led), err |-> FALSE]
          [] OTHER ->
               [task |-> t0, led |-> led, err |-> TRUE]

----------------------------------------------------------------------------
\* What one fetch can bring back

NoInfo == [Status |-> "", Progress |-> "", Url |-> "", Reason |-> "", TotalTokens |-> 0]

EnvelopeInfoWithUsage(status, progress) ==
    [Status |-> status, Progress |-> progress, Url |-> "e", Reason |-> "e", TotalTokens |-> 3]

\* lines 90-96: the gateway's own envelope; Url and Reason both take t.FailReason
\* and TotalTokens stays zero
EnvelopeInfo(status, progress) ==
    [Status |-> status, Progress |-> progress, Url |-> "e", Reason |-> "e", TotalTokens |-> 0]

\* line 97: what adaptor.ParseTaskResult of some channel.TaskAdaptor returns
AdaptorInfos ==
    [Status : StatusIn, Progress : ProgressIn, Url : {"u"}, Reason : {"r"},
     TotalTokens : TokenSet]

Responses ==
    {[kind |-> k, info |-> NoInfo] : k \in {"fetchErr", "readErr", "parseErr"}}
    \cup {[kind |-> "envelope", info |-> EnvelopeInfo(s, p)] : s \in StatusIn, p \in ProgressIn}
    \cup {[kind |-> "adaptor", info |-> i] : i \in AdaptorInfos}

PollOutcomeNoReturn(task, led, resp, now, modelRatio, completionRatio, groupRatio, ok) ==
    IF resp.kind \in {"fetchErr", "readErr", "parseErr"}
    THEN [task |-> task, led |-> led, err |-> TRUE]
    ELSE [ApplyResult(task, resp.info, now, modelRatio, completionRatio, groupRatio, ok, led)
             EXCEPT !.err = FALSE]

PollOutcomeLedgerFatal(task, led, resp, now, modelRatio, completionRatio, groupRatio, ok) ==
    IF resp.kind \in {"fetchErr", "readErr", "parseErr"} \/ ~ok
    THEN [task |-> task, led |-> led, err |-> TRUE]
    ELSE ApplyResult(task, resp.info, now, modelRatio, completionRatio, groupRatio, ok, led)

\* lines 71-277: fetch, read, parse, then the status switch
PollOutcome(task, led, resp, now, modelRatio, completionRatio, groupRatio, ok) ==
    IF resp.kind \in {"fetchErr", "readErr", "parseErr"}
    THEN [task |-> task, led |-> led, err |-> TRUE]
    ELSE ApplyResult(task, resp.info, now, modelRatio, completionRatio, groupRatio, ok, led)

\* does the poll reach the settlement of lines 125-255
Settles(resp) ==
    /\ resp.kind \in {"envelope", "adaptor"}
    /\ resp.info.Status = TaskStatusSuccess
    /\ resp.info.TotalTokens > 0

\* does the poll call DecreaseUserQuota or IncreaseUserQuota
CallsLedger(task, resp, modelRatio, completionRatio, groupRatio) ==
    \/ /\ Settles(resp)
       /\ ActualQuota(resp.info.TotalTokens, modelRatio, completionRatio, groupRatio) # task.Quota
    \/ /\ resp.kind \in {"envelope", "adaptor"}
       /\ resp.info.Status = TaskStatusFailure
       /\ task.Quota # 0

----------------------------------------------------------------------------
\* The steps of one poller

Step(op, p) ==
    [op |-> op, poller |-> p, task |-> "", kind |-> "", info |-> NoInfo, quota |-> 0,
     actual |-> 0, ledgerOk |-> TRUE, persistOk |-> TRUE, err |-> FALSE]

RECURSIVE Perms(_)
Perms(S) ==
    IF S = {} THEN {<<>>}
    ELSE UNION {{<<x>> \o q : q \in Perms(S \ {x})} : x \in S}

\* the taskChannelM values a caller can pass: per channel, some of its tasks
TaskChannelMs(T) ==
    {m \in [Channels -> UNION {Perms(S) : S \in SUBSET T}] :
        \A c \in Channels : \A i \in DOMAIN m[c] : ChannelOf(m[c][i]) = c}

Drop(m, c) == [x \in DOMAIN m \ {c} |-> m[x]]

\* what no step of a poller reads or writes: the loops and updateVideoSingleTask
\* pass ctx to the logger only
calcVars == <<usage, parsed, ctxDone, overlapped>>

\* the caller loads the pending tasks and calls UpdateVideoTaskAll
StartPass(p) ==
    /\ pc[p] = "idle"
    /\ passes < MaxPasses
    /\ passes' = passes + 1
    /\ clock' = clock + 1
    /\ \E m \in TaskChannelMs(DOMAIN store), loaded \in SUBSET DOMAIN store, a \in BOOLEAN :
          /\ chans' = [chans EXCEPT ![p] = m]
          /\ listed' = [listed EXCEPT ![p] = m]
          /\ taskM' = [taskM EXCEPT ![p] = [t \in loaded |-> store[t]]]
          /\ adaptor' = [adaptor EXCEPT ![p] = a]
    /\ outcome' = [outcome EXCEPT ![p] = [c \in Channels |-> "none"]]
    /\ attempts' = [attempts EXCEPT ![p] = [t \in DOMAIN store |-> <<>>]]
    /\ pc' = [pc EXCEPT ![p] = "channels"]
    /\ last' = Step("start", p)
    /\ overlapped' = (overlapped \/ \E q \in Pollers \ {p} : pc[q] # "idle")
    /\ UNCHANGED <<store, ledger, cur, usage, parsed, ctxDone>>

\* updateVideoTaskAll, lines 33-35: nothing pending on the channel
ChannelEmpty(p) ==
    /\ pc[p] = "channels"
    /\ \E c \in DOMAIN chans[p] :
          /\ Len(chans[p][c]) = 0
          /\ chans' = [chans EXCEPT ![p] = Drop(@, c)]
          /\ outcome' = [outcome EXCEPT ![p][c] = "empty"]
    /\ last' = Step("empty", p)
    /\ UNCHANGED <<store, ledger, clock, passes, pc, adaptor, cur, taskM, listed,
                   attempts, calcVars>>

\* model.TaskBulkUpdate of lines 38-42; ok = it returned no error
TaskBulkUpdate(st, taskIds, ok) ==
    [t \in DOMAIN st |->
        IF ok /\ \E i \in DOMAIN taskIds : taskIds[i] = t
        THEN [st[t] EXCEPT !.FailReason = "lookup", !.Status = TaskStatusFailure,
                           !.Progress = "100%"]
        ELSE st[t]]

\* updateVideoTaskAll, lines 36-47: model.CacheGetChannel failed
ChannelLookupFail(p) ==
    /\ pc[p] = "channels"
    /\ \E c \in DOMAIN chans[p], ok \in BOOLEAN :
          /\ Len(chans[p][c]) # 0
          /\ store' = TaskBulkUpdate(store, chans[p][c], ok)
          /\ chans' = [chans EXCEPT ![p] = Drop(@, c)]
          /\ outcome' = [outcome EXCEPT ![p][c] = "lookupFail"]
          /\ last' = [Step("lookupFail", p) EXCEPT !.persistOk = ok]
    /\ UNCHANGED <<ledger, clock, passes, pc, adaptor, cur, taskM, listed, attempts,
                   calcVars>>

\* updateVideoTaskAll, lines 48-51: no adaptor for the platform
ChannelNoAdaptor(p) ==
    /\ pc[p] = "channels"
    /\ ~adaptor[p]
    /\ \E c \in DOMAIN chans[p] :
          /\ Len(chans[p][c]) # 0
          /\ chans' = [chans EXCEPT ![p] = Drop(@, c)]
          /\ outcome' = [outcome EXCEPT ![p][c] = "noAdaptor"]
    /\ last' = Step("noAdaptor", p)
    /\ UNCHANGED <<store, ledger, clock, passes, pc, adaptor, cur, taskM, listed,
                   attempts, calcVars>>

\* updateVideoTaskAll, lines 52-56: the loop over the channel's task ids starts
ChannelBegin(p) ==
    /\ pc[p] = "channels"
    /\ adaptor[p]
    /\ \E c \in DOMAIN chans[p] :
          /\ Len(chans[p][c]) # 0
          /\ cur' = [cur EXCEPT ![p] = chans[p][c]]
          /\ chans' = [chans EXCEPT ![p] = Drop(@, c)]
          /\ outcome' = [outcome EXCEPT ![p][c] = "polled"]
    /\ pc' = [pc EXCEPT ![p] = "tasks"]
    /\ last' = Step("begin", p)
    /\ UNCHANGED <<store, ledger, clock, passes, adaptor, taskM, listed, attempts,
                   calcVars>>

\* task.Update() of lines 278-280; ok = it returned no error
Update(st, taskId, task, ok) ==
    IF ok THEN [st EXCEPT ![taskId] = task] ELSE st

LoopRestAbort(taskIds, err) == IF err THEN <<>> ELSE Tail(taskIds)

\* lines 52-56: an error of updateVideoSingleTask is logged and the loop goes on
\* with the next task id
LoopRest(taskIds, err) == Tail(taskIds)

\* the poller after one call of updateVideoSingleTask in the loop
Advance(p, err) ==
    LET rest == LoopRest(cur[p], err)
    IN  /\ cur' = [cur EXCEPT ![p] = rest]
        /\ pc' = [pc EXCEPT ![p] = IF rest = <<>> THEN "channels" ELSE "tasks"]

\* updateVideoSingleTask for the next task id of the loop, with a fetched
\* result from R and the quota calls returning no error as L allows
PollTaskWith(p, R, L) ==
    /\ pc[p] = "tasks"
    /\ cur[p] # <<>>
    /\ LET taskId == Head(cur[p])
       IN  /\ IF taskId \notin DOMAIN taskM[p]
              THEN /\ last' = [Step("poll", p) EXCEPT !.task = taskId, !.kind = "nil",
                                                      !.err = TRUE]
                   /\ attempts' = [attempts EXCEPT ![p][taskId] = Append(@, TRUE)]
                   /\ Advance(p, TRUE)
                   /\ UNCHANGED <<store, ledger, taskM>>
              ELSE \E resp \in R :
                   \E mr, cr, gr \in (IF Settles(resp) THEN RatioSet ELSE {0}) :
                   \E ledgerOk \in (IF CallsLedger(taskM[p][taskId], resp, mr, cr, gr)
                                    THEN L ELSE {TRUE}) :
                   LET out == PollOutcome(taskM[p][taskId], ledger[taskId], resp, clock,
                                          mr, cr, gr, ledgerOk)
                   IN  \E persistOk \in (IF out.err THEN {TRUE} ELSE BOOLEAN) :
                       /\ attempts' = [attempts EXCEPT ![p][taskId] = Append(@, out.err)]
                       /\ Advance(p, out.err)
                       /\ taskM' = [taskM EXCEPT ![p][taskId] = out.task]
                       /\ ledger' = [ledger EXCEPT ![taskId] = out.led]
                       /\ store' = IF out.err THEN store
                                   ELSE Update(store, taskId, out.task, persistOk)
                       /\ last' = [op |-> "poll", poller |-> p, task |-> taskId,
                                   kind |-> resp.kind, info |-> resp.info,
                                   quota |-> taskM[p][taskId].Quota,
                                   actual |-> IF Settles(resp)
                                              THEN ActualQuota(resp.info.TotalTokens,
                                                               mr, cr, gr)
                                              ELSE 0,
                                   ledgerOk |-> ledgerOk,
                                   persistOk |-> persistOk, err |-> out.err]
    /\ UNCHANGED <<clock, passes, adaptor, chans, listed, outcome, calcVars>>

\* updateVideoSingleTask whose quota calls may fail
PollTask(p, R) == PollTaskWith(p, R, BOOLEAN)

\* UpdateVideoTaskAll, line 28: every channel has been ranged over
EndPass(p) ==
    /\ pc[p] = "channels"
    /\ DOMAIN chans[p] = {}
    /\ pc' = [pc EXCEPT ![p] = "idle"]
    /\ taskM' = [taskM EXCEPT ![p] = <<>>]
    /\ last' = Step("end", p)
    /\ UNCHANGED <<store, ledger, clock, passes, adaptor, chans, cur, listed, outcome,
                   attempts, calcVars>>

PollerStep(p, R) ==
    \/ StartPass(p)
    \/ ChannelEmpty(p)
    \/ ChannelLookupFail(p)
    \/ ChannelNoAdaptor(p)
    \/ ChannelBegin(p)
    \/ PollTask(p, R)
    \/ EndPass(p)

----------------------------------------------------------------------------
\* One task polled by a sequence of passes of one poller

NoUsage == [tokens |-> 0, modelRatio |-> 0, completionRatio |-> 0, groupRatio |-> 0]
NoPayload == [json |-> TRUE, code |-> "", message |-> "", status |-> <<>>, video_url |-> ""]

InitReconciler ==
    /\ clock = 0
    /\ pc = [p \in Pollers |-> "idle"]
    /\ adaptor = [p \in Pollers |-> TRUE]
    /\ chans = [p \in Pollers |-> <<>>]
    /\ cur = [p \in Pollers |-> <<>>]
    /\ taskM = [p \in Pollers |-> <<>>]
    /\ listed = [p \in Pollers |-> [c \in Channels |-> <<>>]]
    /\ outcome = [p \in Pollers |-> [c \in Channels |-> "none"]]
    /\ last = Step("init", 1)
    /\ usage = NoUsage
    /\ ctxDone = FALSE
    /\ overlapped = FALSE

InitPollers ==
    /\ InitReconciler
    /\ parsed = [done |-> FALSE, payload |-> NoPayload, err |-> FALSE, result |-> NoInfo]

InitTasks(T) ==
    /\ \E q \in ReservedSet :
          /\ store = [t \in T |-> NewTask(q)]
          /\ ledger = [t \in T |-> NewLedger(q)]
    /\ attempts = [p \in Pollers |-> [t \in T |-> <<>>]]

Init ==
    /\ InitTasks({"t1"})
    /\ passes = 0
    /\ InitPollers

Next == PollerStep(1, Responses)

Spec == Init /\ [][Next]_vars

----------------------------------------------------------------------------
\* One invocation of UpdateVideoTaskAll over two channels and three tasks

InitBatch ==
    /\ InitTasks(AllTasks)
    /\ passes = MaxPasses - 1
    /\ InitPollers

\* the answers of the batch run: every way a poll can fail, and one answer per
\* outcome of the status switch
BatchResponses ==
    {r \in Responses :
        \/ r.kind \in {"fetchErr", "readErr", "parseErr"}
        \/ /\ r.kind = "adaptor"
           /\ r.info.Progress = ""
           /\ r.info.TotalTokens = 0
           /\ r.info.Status \in {"", TaskStatusUnknown, TaskStatusInProgress,
                                 TaskStatusSuccess, TaskStatusFailure}}

NextBatch == PollerStep(1, BatchResponses)

SpecBatch == InitBatch /\ [][NextBatch]_vars

----------------------------------------------------------------------------
\* One invocation of UpdateVideoTaskAll whose context is cancelled at some
\* point while it runs

\* the caller's context is cancelled while poller p is inside UpdateVideoTaskAll
CtxCancel(p) ==
    /\ pc[p] # "idle"
    /\ ~ctxDone
    /\ ctxDone' = TRUE
    /\ last' = Step("cancel", p)
    /\ UNCHANGED <<store, ledger, clock, passes, pc, adaptor, chans, cur, taskM, listed,
                   outcome, attempts, usage, parsed, overlapped>>

NextCancel == PollerStep(1, BatchResponses) \/ CtxCancel(1)

SpecCancel == InitBatch /\ [][NextCancel]_vars

----------------------------------------------------------------------------
\* Two callers of UpdateVideoTaskAll working on the same task, with nothing to
\* keep their invocations apart.  Every poll brings a Success result with usage
\* and every quota call succeeds; task.Update() may fail

RaceResponses ==
    {r \in Responses :
        /\ r.kind = "adaptor"
        /\ r.info.Progress = ""
        /\ r.info.Status = TaskStatusSuccess
        /\ r.info.TotalTokens > 0}

\* a step of poller p whose quota calls return no error
ReliableStep(p, R) ==
    \/ StartPass(p)
    \/ ChannelEmpty(p)
    \/ ChannelLookupFail(p)
    \/ ChannelNoAdaptor(p)
    \/ ChannelBegin(p)
    \/ PollTaskWith(p, R, {TRUE})
    \/ EndPass(p)

NextRace == \E p \in Pollers : ReliableStep(p, RaceResponses)

SpecRace == Init /\ [][NextRace]_vars

----------------------------------------------------------------------------
\* One caller whose passes follow one another; every poll brings a terminal
\* result, every quota call succeeds and task.Update() may fail

RetryResponses ==
    RaceResponses
    \cup {r \in Responses :
            /\ r.kind = "adaptor"
            /\ r.info.Progress = ""
            /\ r.info.Status = TaskStatusFailure
            /\ r.info.TotalTokens = 0}

NextRetry == ReliableStep(1, RetryResponses)

SpecRetry == Init /\ [][NextRetry]_vars

----------------------------------------------------------------------------
\* The settlement on its own: one Success poll result with usage applied to a
\* task, over a wider range of usage tokens and rates

MaxTokens == 4
WideRatioSet == 0 .. (2 * RatioDen)

InitSettle ==
    /\ InitTasks({"t1"})
    /\ passes = MaxPasses - 1
    /\ InitPollers

SettleUsage ==
    /\ passes < MaxPasses
    /\ passes' = passes + 1
    /\ clock' = clock + 1
    /\ \E tokens \in 0 .. MaxTokens, mr, cr, gr \in WideRatioSet, ok \in BOOLEAN :
          LET res == [Status |-> TaskStatusSuccess, Progress |-> "", Url |-> "u",
                      Reason |-> "r", TotalTokens |-> tokens]
              out == ApplyResult(store["t1"], res, clock', mr, cr, gr, ok, ledger["t1"])
          IN  /\ store' = Update(store, "t1", out.task, TRUE)
              /\ ledger' = [ledger EXCEPT !["t1"] = out.led]
              /\ usage' = [tokens |-> tokens, modelRatio |-> mr, completionRatio |-> cr,
                           groupRatio |-> gr]
              /\ last' = [Step("settle", 1) EXCEPT !.task = "t1", !.info = res,
                                                   !.quota = store["t1"].Quota,
                                                   !.ledgerOk = ok]
    /\ UNCHANGED <<pc, adaptor, chans, cur, taskM, listed, outcome, attempts, parsed,
                   ctxDone, overlapped>>

SpecSettle == InitSettle /\ [][SettleUsage]_vars

----------------------------------------------------------------------------
\* ParseTaskResult of the Volc Ark video adaptor.  A status string is a
\* sequence of one-letter strings, so that strings.ToLower has work to do.

Upper == <<"A", "B", "C", "D", "E", "F", "G", "H", "I", "J", "K", "L", "M",
           "N", "O", "P", "Q", "R", "S", "T", "U", "V", "W", "X", "Y", "Z">>
Lower == <<"a", "b", "c", "d", "e", "f", "g", "h", "i", "j", "k", "l", "m",
           "n", "o", "p", "q", "r", "s", "t", "u", "v", "w", "x", "y", "z">>

LowerOf(ch) ==
    IF \E i \in DOMAIN Upper : Upper[i] = ch
    THEN Lower[CHOOSE i \in DOMAIN Upper : Upper[i] = ch]
    ELSE ch

ToLowerNone(s) == s

\* strings.ToLower
ToLower(s) == [i \in DOMAIN s |-> LowerOf(s[i])]

WordQueued == <<"q", "u", "e", "u", "e", "d">>
WordRunning == <<"r", "u", "n", "n", "i", "n", "g">>
WordSucceeded == <<"s", "u", "c", "c", "e", "e", "d", "e", "d">>
WordFailed == <<"f", "a", "i", "l", "e", "d">>

\* fetchResponse, decoded: Error.Code, Error.Message, Status, Content.VideoURL;
\* json = the body unmarshals
ParseTaskResult(body) ==
    LET res == [Status |-> "", Progress |-> "", Url |-> "", Reason |-> <<>>,
                TotalTokens |-> 0]
        lowered == ToLower(body.status)
    IN  IF ~body.json
        THEN [err |-> TRUE, info |-> res]
        ELSE [err |-> FALSE, info |->
            IF body.code # ""
            THEN [res EXCEPT !.Status = TaskStatusFailure, !.Progress = "100%",
                             !.Reason = <<body.code, ": ", body.message>>]
            ELSE IF body.status = <<>>
            THEN [res EXCEPT !.Status = TaskStatusUnknown, !.Progress = "0%",
                             !.Reason = <<"unknown response format">>]
            ELSE CASE lowered = WordQueued ->
                        [res EXCEPT !.Status = TaskStatusQueued, !.Progress = "20%"]
                   [] lowered = WordRunning ->
                        [res EXCEPT !.Status = TaskStatusInProgress, !.Progress = "60%"]
                   [] lowered = WordSucceeded ->
                        [res EXCEPT !.Status = TaskStatusSuccess, !.Progress = "100%",
                                    !.Url = body.video_url,
                                    !.Reason = <<"snapshot", body.status, body.video_url>>]
                   [] lowered = WordFailed ->
                        [res EXCEPT !.Status = TaskStatusFailure, !.Progress = "100%",
                                    !.Reason = IF body.message # ""
                                               THEN <<body.message>>
                                               ELSE <<"task failed">>]
                   [] OTHER ->
                        [res EXCEPT !.Status = TaskStatusUnknown, !.Progress = "0%",
                                    !.Reason = <<"unknown status: ", body.status>>]]

UpperOf(ch) ==
    IF \E i \in DOMAIN Lower : Lower[i] = ch
    THEN Upper[CHOOSE i \in DOMAIN Lower : Lower[i] = ch]
    ELSE ch

\* every spelling of a word in upper and lower case letters
RECURSIVE CaseVariants(_)
CaseVariants(w) ==
    IF w = <<>> THEN {<<>>}
    ELSE {<<ch>> \o rest : ch \in {Head(w), UpperOf(Head(w))},
                           rest \in CaseVariants(Tail(w))}

StatusStrings ==
    CaseVariants(WordQueued) \cup CaseVariants(WordRunning)
    \cup CaseVariants(WordSucceeded) \cup CaseVariants(WordFailed)
    \cup {<<>>, <<"q", "u", "e", "u", "e">>, <<" ", "q", "u", "e", "u", "e", "d">>,
          <<"f", "a", "i", "l", "e", "d", "!">>, <<"c", "a", "n", "c", "e", "l", "l", "e", "d">>,
          <<"S", "U", "C", "C", "E", "S", "S">>}

Payloads ==
    [json : BOOLEAN, code : {"", "rate_limited"}, message : {"", "boom"},
     status : StatusStrings, video_url : {"", "v"}]

InitParse ==
    /\ InitTasks({})
    /\ passes = 0
    /\ InitReconciler
    /\ \E body \in Payloads : parsed = [done |-> FALSE, payload |-> body, err |-> FALSE,
                                        result |-> NoInfo]

Parse ==
    /\ ~parsed.done
    /\ LET r == ParseTaskResult(parsed.payload)
       IN  parsed' = [parsed EXCEPT !.done = TRUE, !.err = r.err, !.result = r.info]
    /\ UNCHANGED <<store, ledger, clock, passes, pc, adaptor, chans, cur, taskM, listed,
                   outcome, attempts, last, usage, ctxDone, overlapped>>

SpecParse == InitParse /\ [][Parse]_vars

----------------------------------------------------------------------------
\* Steps of updateVideoSingleTask, read off a step's last' (the inputs of the
\* poll) and the poller's taskM (the task as it was loaded)

Poller == last'.poller

\* the poll of task t got a normalized result with this status
Yields(t, status) ==
    /\ last'.op = "poll"
    /\ last'.task = t
    /\ last'.kind \in {"envelope", "adaptor"}
    /\ last'.info.Status = status

\* the poll of task t ran the settlement
Settled(t) == Yields(t, TaskStatusSuccess) /\ last'.info.TotalTokens > 0

SystemLog(quota, what) == [type |-> "system", quota |-> quota, what |-> what]
ConsumeLog(quota) == [type |-> "consume", quota |-> quota, what |-> "supplement"]

\* the latest step was a poll of t that ran the settlement
LastSettled(t) ==
    /\ last.op = "poll"
    /\ last.task = t
    /\ last.info.Status = TaskStatusSuccess
    /\ last.info.TotalTokens > 0

\* the latest step was a poll of t that took the Failure case
LastFailed(t) ==
    /\ last.op = "poll"
    /\ last.task = t
    /\ last.info.Status = TaskStatusFailure

HasLog(t, what) == \E i \in DOMAIN ledger[t].logs : ledger[t].logs[i].what = what

----------------------------------------------------------------------------
\* C1: over sequential passes on one task, the Failure refund is credited to
\* the user at most once in total, however often Failure is reported.
C1_RefundOnce == \A t \in DOMAIN ledger : ledger[t].refunds <= 1

\* C2: a settlement run leaves task.quota equal to actualQuota (and so does the
\* stored row once the run is persisted), and a settlement run that starts from
\* task.quota = actualQuota, as the second of two runs with the same usage does,
\* performs no ledger action.
C2_SettleIdempotent ==
    /\ [](\A t \in DOMAIN store :
            LastSettled(t) /\ last.persistOk => store[t].Quota = last.actual)
    /\ [][\A t \in DOMAIN store :
            Settled(t) =>
                /\ taskM'[Poller][t].Quota = last'.actual
                /\ (taskM[Poller][t].Quota = last'.actual => ledger'[t] = ledger[t])]_vars

\* C2 witness: a second settlement with the same actualQuota has run (delta 0)
\* after a first one that adjusted the ledger.
C2_Witness ==
    /\ LastSettled("t1")
    /\ last.quota = last.actual
    /\ passes = 2
    /\ HasLog("t1", "supplement") \/ HasLog("t1", "adjust")

\* C3 as claimed: every Failure poll credits the user with task.quota, leaves
\* task.quota unchanged and writes exactly one system log entry.
C3_Original ==
    [][\A t \in DOMAIN store :
         Yields(t, TaskStatusFailure) =>
            LET q == taskM[Poller][t].Quota
            IN  /\ ledger'[t].userQuota = ledger[t].userQuota + q
                /\ taskM'[Poller][t].Quota = q
                /\ store'[t].Quota = store[t].Quota
                /\ ledger'[t].logs = Append(ledger[t].logs, SystemLog(q, "refund"))]_vars

\* C3 amended: a Failure poll leaves task.quota unchanged; with task.quota # 0
\* it credits the user with exactly task.quota if the ledger accepts the credit
\* (nothing if the credit fails) and writes one system log entry either way;
\* with task.quota = 0 it neither credits nor logs.
C3_FailureRefund ==
    [][\A t \in DOMAIN store :
         Yields(t, TaskStatusFailure) =>
            LET q == taskM[Poller][t].Quota
            IN  /\ taskM'[Poller][t].Quota = q
                /\ store'[t].Quota = store[t].Quota
                /\ IF q = 0
                   THEN ledger'[t] = ledger[t]
                   ELSE /\ ledger'[t].userQuota =
                              ledger[t].userQuota + (IF last'.ledgerOk THEN q ELSE 0)
                        /\ ledger'[t].logs = Append(ledger[t].logs, SystemLog(q, "refund"))
                        /\ ledger'[t].usedQuota = ledger[t].usedQuota
                        /\ ledger'[t].channelUsedQuota = ledger[t].channelUsedQuota]_vars

\* C3 witness: a Failure poll refunded a quota that an earlier settlement had
\* rewritten.
C3_Witness ==
    /\ LastFailed("t1")
    /\ last.ledgerOk
    /\ last.quota # 0
    /\ HasLog("t1", "supplement")
    /\ ledger["t1"].logs[Len(ledger["t1"].logs)] = SystemLog(last.quota, "refund")

\* C4: a settlement with delta > 0 debits delta, writes one supplement
\* entry and grows both usage counters by delta; with delta < 0 it credits
\* -delta and writes one system log; with delta = 0 it does nothing; and
\* task.quota = actualQuota afterwards.
C4_SettlementLedger ==
    [][\A t \in DOMAIN store :
         Settled(t) =>
            LET delta == last'.actual - taskM[Poller][t].Quota
            IN  /\ taskM'[Poller][t].Quota = last'.actual
                /\ delta > 0 =>
                     /\ ledger'[t].userQuota = ledger[t].userQuota - delta
                     /\ ledger'[t].logs = Append(ledger[t].logs, ConsumeLog(delta))
                     /\ ledger'[t].usedQuota = ledger[t].usedQuota + delta
                     /\ ledger'[t].channelUsedQuota = ledger[t].channelUsedQuota + delta
                /\ delta < 0 =>
                     /\ ledger'[t].userQuota = ledger[t].userQuota - delta
                     /\ ledger'[t].logs = Append(ledger[t].logs, SystemLog(-delta, "adjust"))
                /\ delta = 0 => ledger'[t] = ledger[t]]_vars

\* what the settlement does: the ledger effects of C4 happen when the debit or
\* credit call succeeds; when it fails nothing is written to the ledger, and
\* task.quota is set to actualQuota all the same.
SettlementEffects ==
    [][\A t \in DOMAIN store :
         Settled(t) =>
            LET delta == last'.actual - taskM[Poller][t].Quota
            IN  /\ taskM'[Poller][t].Quota = last'.actual
                /\ delta > 0 /\ last'.ledgerOk =>
                     /\ ledger'[t].userQuota = ledger[t].userQuota - delta
                     /\ ledger'[t].logs = Append(ledger[t].logs, ConsumeLog(delta))
                     /\ ledger'[t].usedQuota = ledger[t].usedQuota + delta
                     /\ ledger'[t].channelUsedQuota = ledger[t].channelUsedQuota + delta
                     /\ ledger'[t].refunds = ledger[t].refunds
                /\ delta < 0 /\ last'.ledgerOk =>
                     /\ ledger'[t].userQuota = ledger[t].userQuota - delta
                     /\ ledger'[t].logs = Append(ledger[t].logs, SystemLog(-delta, "adjust"))
                     /\ ledger'[t].usedQuota = ledger[t].usedQuota
                     /\ ledger'[t].channelUsedQuota = ledger[t].channelUsedQuota
                     /\ ledger'[t].refunds = ledger[t].refunds
                /\ delta = 0 \/ ~last'.ledgerOk => ledger'[t] = ledger[t]]_vars

\* a settlement debited a positive delta: reserved 2, actualQuota 3.
DebitedDelta ==
    /\ LastSettled("t1")
    /\ last.ledgerOk
    /\ last.quota = 2
    /\ last.actual = 3
    /\ ledger["t1"].userQuota = StartBalance - 3
    /\ ledger["t1"].logs = <<ConsumeLog(1)>>
    /\ store["t1"].Quota = 3

\* two letters that differ at most in case
SameLetter(a, b) ==
    \/ a = b
    \/ \E i \in DOMAIN Upper : {a, b} = {Upper[i], Lower[i]}

\* s spells the word w, whatever the case of its letters
Spells(s, w) == Len(s) = Len(w) /\ \A i \in DOMAIN w : SameLetter(s[i], w[i])

\* C5: ParseTaskResult by priority: an error code gives Failure with reason
\* "<code>: <message>" whatever the status; else an empty status gives Unknown
\* with the format-mismatch reason; else queued, running, succeeded and failed in
\* any letter case give Queued 20%, InProgress 60%, Success 100% with the result
\* URL and Failure 100%; every other non-empty status gives Unknown 0%.
C5_ParsePriority ==
    parsed.done /\ parsed.payload.json =>
        LET body == parsed.payload
            res == parsed.result
        IN  /\ ~parsed.err
            /\ body.code # "" =>
                 /\ res.Status = TaskStatusFailure
                 /\ res.Reason = <<body.code, ": ", body.message>>
            /\ body.code = "" /\ body.status = <<>> =>
                 /\ res.Status = TaskStatusUnknown
                 /\ res.Reason = <<"unknown response format">>
            /\ body.code = "" /\ Spells(body.status, WordQueued) =>
                 res.Status = TaskStatusQueued /\ res.Progress = "20%"
            /\ body.code = "" /\ Spells(body.status, WordRunning) =>
                 res.Status = TaskStatusInProgress /\ res.Progress = "60%"
            /\ body.code = "" /\ Spells(body.status, WordSucceeded) =>
                 /\ res.Status = TaskStatusSuccess
                 /\ res.Progress = "100%"
                 /\ res.Url = body.video_url
            /\ body.code = "" /\ Spells(body.status, WordFailed) =>
                 res.Status = TaskStatusFailure /\ res.Progress = "100%"
            /\ /\ body.code = ""
               /\ body.status # <<>>
               /\ \A w \in {WordQueued, WordRunning, WordSucceeded, WordFailed} :
                     ~Spells(body.status, w)
               => res.Status = TaskStatusUnknown /\ res.Progress = "0%"

\* C5 witness: an error code next to a mixed-case "succeeded" status was parsed
\* to Failure.
C5_Witness ==
    /\ parsed.done
    /\ parsed.payload.json
    /\ parsed.payload.code = "rate_limited"
    /\ parsed.payload.message = "boom"
    /\ parsed.payload.status = <<"S", "u", "c", "c", "e", "e", "d", "e", "D">>
    /\ parsed.result.Status = TaskStatusFailure
    /\ parsed.result.Reason = <<"rate_limited", ": ", "boom">>

\* the product of the usage tokens and the three rates the code multiplies (a
\* zero model or completion rate counted as 1.0), as a fraction ProductNum /
\* ProductDen
Effective(r) == IF r = 0 THEN RatioDen ELSE r
ProductNum == usage.tokens * Effective(usage.completionRatio)
                  * Effective(usage.modelRatio) * usage.groupRatio
ProductDen == RatioDen * RatioDen * RatioDen

\* a settlement has run with the recorded usage
UsageSettled == last.op = "settle" /\ usage.tokens > 0

\* C6 as claimed: the billed amount is the product rounded to the nearest
\* integer, raised to 1 when that is <= 0.
C6_Original ==
    UsageSettled =>
        LET rounded == (2 * ProductNum + ProductDen) \div (2 * ProductDen)
        IN  store["t1"].Quota = IF rounded <= 0 THEN 1 ELSE rounded

\* C6 amended: the billed amount is the product truncated to an integer (the
\* fractional part is dropped), raised to 1 when that is <= 0.
C6_Truncated ==
    UsageSettled =>
        LET q == store["t1"].Quota
        IN  IF ProductNum < ProductDen
            THEN q = 1
            ELSE q * ProductDen <= ProductNum /\ ProductNum < (q + 1) * ProductDen

\* C6 witness: 3 tokens at completion rate 0.5, the other rates 1.0, were billed 1.
C6_Witness ==
    /\ UsageSettled
    /\ usage.tokens = 3
    /\ 2 * usage.completionRatio = RatioDen
    /\ usage.modelRatio = RatioDen
    /\ usage.groupRatio = RatioDen
    /\ store["t1"].Quota = 1

\* the usage with one of its rates replaced
WithRate(field, r) == [usage EXCEPT ![field] = r]
QuotaOf(u) == ActualQuota(u.tokens, u.modelRatio, u.completionRatio, u.groupRatio)

\* C7 as claimed: a zero model, completion or group rate gives the same
\* actualQuota as the rate 1.0 in its place.
C7_Original ==
    UsageSettled =>
        \A field \in {"modelRatio", "completionRatio", "groupRatio"} :
            usage[field] = 0 => store["t1"].Quota = QuotaOf(WithRate(field, RatioDen))

\* C7 amended: a zero model rate or completion rate gives the same actualQuota as
\* the rate 1.0 in its place; a zero group rate is used as it is, the product is
\* 0 and actualQuota is 1.
C7_ZeroRates ==
    UsageSettled =>
        /\ \A field \in {"modelRatio", "completionRatio"} :
              usage[field] = 0 => store["t1"].Quota = QuotaOf(WithRate(field, RatioDen))
        /\ usage.groupRatio = 0 => store["t1"].Quota = 1

\* C7 witness: a zero completion rate billed 3 tokens as 3, the rate 1.0 result.
C7_Witness ==
    /\ UsageSettled
    /\ usage.tokens = 3
    /\ usage.completionRatio = 0
    /\ usage.modelRatio = RatioDen
    /\ usage.groupRatio = RatioDen
    /\ store["t1"].Quota = 3

\* the channels and task ids one running pass still has to go through
RECURSIVE Pending(_)
Pending(m) ==
    IF DOMAIN m = {} THEN 0
    ELSE LET c == CHOOSE x \in DOMAIN m : TRUE
         IN  1 + Len(m[c]) + Pending(Drop(m, c))

Measure == IF pc[1] = "idle" THEN 0 ELSE 1 + Pending(chans[1]) + Len(cur[1])

PassEnded == last.op = "end"

\* the calls of updateVideoSingleTask for every task id the caller listed
Attempted(c, n) == \A i \in DOMAIN listed[1][c] : Len(attempts[1][listed[1][c][i]]) = n

\* C8 as claimed: the invocation terminates, and every task of every channel
\* whose lookup succeeded has been attempted exactly once when it returns.
C8_Original ==
    /\ [](pc[1] # "idle" => ENABLED NextBatch)
    /\ [][pc[1] # "idle" => Measure' < Measure]_vars
    /\ [](PassEnded =>
            \A c \in Channels : outcome[1][c] \notin {"lookupFail"} => Attempted(c, 1))

\* C8 amended: the invocation terminates (a step is always possible until it
\* returns, and every step brings the return nearer); it goes through every
\* channel; every task of a channel whose lookup succeeded and whose platform
\* has an adaptor is attempted exactly once, whatever errors the polls before it
\* returned; the tasks of a channel that failed are not attempted.
C8_BatchIsolation ==
    /\ [](pc[1] # "idle" => ENABLED NextBatch)
    /\ [][pc[1] # "idle" => Measure' < Measure]_vars
    /\ [](PassEnded =>
            \A c \in Channels :
                /\ outcome[1][c] # "none"
                /\ outcome[1][c] = "polled" => Attempted(c, 1)
                /\ outcome[1][c] # "polled" => Attempted(c, 0))

\* C8 witness: channel 2 failed at lookup, and afterwards channel 1 polled t2
\* although the poll of t1 before it had returned an error.
C8_Witness ==
    /\ listed[1][1] = <<"t1", "t2">>
    /\ listed[1][2] = <<"t3">>
    /\ outcome[1][2] = "lookupFail"
    /\ DOMAIN chans[1] = {}
    /\ attempts[1]["t1"] = <<TRUE>>
    /\ attempts[1]["t2"] = <<FALSE>>
    /\ attempts[1]["t3"] = <<>>
    /\ last.op = "poll"
    /\ last.task = "t2"

\* C9: finish_time is zero until a terminal status is first written, is
\* nonzero whenever the stored status is Success or Failure, and once nonzero is
\* never changed.
C9_FinishTime ==
    /\ [][\A t \in DOMAIN store :
            /\ store[t].FinishTime = 0 /\ store'[t].FinishTime # 0 =>
                  Terminal(store'[t].Status)
            /\ store[t].FinishTime # 0 => store'[t].FinishTime = store[t].FinishTime]_vars
    /\ [](\A t \in DOMAIN store : Terminal(store[t].Status) => store[t].FinishTime # 0)

\* the poll of task t got a result whose status the switch handles
Applied(t) ==
    \E s \in {TaskStatusSubmitted, TaskStatusQueued, TaskStatusInProgress,
              TaskStatusSuccess, TaskStatusFailure} : Yields(t, s)

\* C10 as claimed: start_time, once nonzero, never changes, and a poll that
\* moves the task to InProgress, Success or Failure leaves start_time set.
C10_Original ==
    [][\A t \in DOMAIN store :
         /\ store[t].StartTime # 0 => store'[t].StartTime = store[t].StartTime
         /\ \/ Yields(t, TaskStatusInProgress)
            \/ Yields(t, TaskStatusSuccess)
            \/ Yields(t, TaskStatusFailure)
            => taskM'[Poller][t].StartTime # 0]_vars

\* C10 amended: start_time, once nonzero, never changes; a poll that yields
\* InProgress sets it to the poll's time when it was zero; a poll that yields any
\* other status, Success and Failure included, leaves it as it was, so a task
\* that was never polled as InProgress keeps start_time zero.
C10_StartTime ==
    [][\A t \in DOMAIN store :
         /\ store[t].StartTime # 0 => store'[t].StartTime = store[t].StartTime
         /\ Yields(t, TaskStatusInProgress) =>
               taskM'[Poller][t].StartTime =
                   IF taskM[Poller][t].StartTime = 0 THEN clock
                   ELSE taskM[Poller][t].StartTime
         /\ Applied(t) /\ ~Yields(t, TaskStatusInProgress) =>
               taskM'[Poller][t].StartTime = taskM[Poller][t].StartTime]_vars

\* C10 witness: a second InProgress poll, at a later time, kept the start_time
\* the first one had set.
C10_Witness ==
    /\ last.op = "poll"
    /\ last.info.Status = TaskStatusInProgress
    /\ last.persistOk
    /\ clock = 2
    /\ store["t1"].StartTime = 1

\* C11: no task is stored as Failure with its reservation still debited: a
\* stored Failure row with a nonzero quota has had that quota credited back,
\* whether a poll or the bulk update of a failed channel lookup wrote the row.
C11_FailureReleased ==
    \A t \in DOMAIN store :
        store[t].Status = TaskStatusFailure /\ store[t].Quota # 0 =>
            ledger[t].refunds >= 1

\* C12: Success and Failure are terminal: a poll of a task whose stored status
\* is Success or Failure leaves the stored status as it is, whatever the
\* fetched result says.
C12_TerminalStays ==
    [][\A t \in DOMAIN store :
         last'.op = "poll" /\ last'.task = t /\ Terminal(store[t].Status) =>
            store'[t].Status = store[t].Status]_vars

\* C13: a poll whose normalized status is Unknown takes the default case of the
\* switch and returns before task.Update(): the stored row (status, progress,
\* quota, fail reason, finish time) and the ledger are as before the poll, the
\* error is only reported to the loop, which goes on with the next task id, and
\* the row a later pass loads is the one the poll found.
C13_UnknownNoEffect ==
    [][\A t \in DOMAIN store :
         Yields(t, TaskStatusUnknown) =>
            /\ store' = store
            /\ ledger' = ledger
            /\ last'.err
            /\ cur'[Poller] = Tail(cur[Poller])
            /\ passes' = passes]_vars

\* C13 witness: the second pass polls the task, still as submitted, and gets
\* Unknown again from the adaptor.
C13_Witness ==
    /\ passes = 2
    /\ last.op = "poll"
    /\ last.task = "t1"
    /\ last.kind = "adaptor"
    /\ last.info.Status = TaskStatusUnknown
    /\ last.err
    /\ store["t1"] = NewTask(2)
    /\ ledger["t1"] = NewLedger(2)
    /\ taskM[1]["t1"].Status = TaskStatusUnknown

\* the progress the switch gives a status when the result carries none
DefaultProgress(status) ==
    CASE status = TaskStatusSubmitted -> "10%"
      [] status = TaskStatusQueued -> "20%"
      [] status = TaskStatusInProgress -> "30%"
      [] status = TaskStatusSuccess -> "100%"
      [] status = TaskStatusFailure -> "100%"

\* C14: after a poll that applies a status, task.progress is the result's
\* progress string when that is non-empty and otherwise the default of the
\* status (10%, 20%, 30%, 100%, 100%); the persisted row carries the same value.
C14_Progress ==
    [][\A t \in DOMAIN store :
         Applied(t) =>
            LET want == IF last'.info.Progress # "" THEN last'.info.Progress
                        ELSE DefaultProgress(last'.info.Status)
            IN  /\ taskM'[Poller][t].Progress = want
                /\ last'.persistOk => store'[t].Progress = want]_vars

\* C14 witness: a Success result with the explicit progress 60% was persisted
\* with 60%, not the default 100%.
C14_Witness ==
    /\ last.op = "poll"
    /\ last.kind = "adaptor"
    /\ last.info.Status = TaskStatusSuccess
    /\ last.info.Progress = "60%"
    /\ last.persistOk
    /\ store["t1"].Status = TaskStatusSuccess
    /\ store["t1"].Progress = "60%"

\* the poll of task t got a result that is not settled: Submitted, Queued,
\* InProgress, or Success without usage tokens
Unsettled(t) ==
    \/ Yields(t, TaskStatusSubmitted)
    \/ Yields(t, TaskStatusQueued)
    \/ Yields(t, TaskStatusInProgress)
    \/ Yields(t, TaskStatusSuccess) /\ last'.info.TotalTokens = 0

\* C15: a poll that yields Submitted, Queued or InProgress, or Success with zero
\* usage tokens, leaves the ledger (balance, log entries, usage counters) and
\* task.quota as they were; a result taken from the gateway's envelope is always
\* such a poll unless it yields Failure.
C15_SettleOnlyOnUsage ==
    [][\A t \in DOMAIN store :
         /\ Unsettled(t) =>
               /\ ledger' = ledger
               /\ taskM'[Poller][t].Quota = taskM[Poller][t].Quota
               /\ store'[t].Quota = store[t].Quota
         /\ Applied(t) /\ last'.kind = "envelope" /\ ~Yields(t, TaskStatusFailure) =>
               Unsettled(t)]_vars

\* C15 witness: a Success result from the envelope was persisted with the
\* reserved quota and an untouched ledger.
C15_Witness ==
    /\ last.op = "poll"
    /\ last.kind = "envelope"
    /\ last.info.Status = TaskStatusSuccess
    /\ last.persistOk
    /\ store["t1"].Status = TaskStatusSuccess
    /\ store["t1"].Quota = 2
    /\ ledger["t1"] = NewLedger(2)

\* the poll of task t called DecreaseUserQuota or IncreaseUserQuota and got an
\* error back
LedgerFailed(t) ==
    /\ Settled(t) \/ Yields(t, TaskStatusFailure)
    /\ ~last'.ledgerOk

\* C16: a poll whose debit or credit returns an error still returns no error
\* itself and still hands the task to task.Update() with the new status, its
\* progress and a finish time (the poll's time when none was set), so the row
\* is stored with them whenever task.Update() succeeds.
C16_LedgerFailureKeepsStatus ==
    [][\A t \in DOMAIN store :
         LedgerFailed(t) =>
            LET want == IF last'.info.Progress # "" THEN last'.info.Progress ELSE "100%"
                finish == IF taskM[Poller][t].FinishTime = 0 THEN clock
                          ELSE taskM[Poller][t].FinishTime
            IN  /\ ~last'.err
                /\ taskM'[Poller][t].Status = last'.info.Status
                /\ taskM'[Poller][t].Progress = want
                /\ taskM'[Poller][t].FinishTime = finish
                /\ last'.persistOk => store'[t] = taskM'[Poller][t]]_vars

\* C16 witness: the debit of a settlement failed and the task was stored as
\* Success, 100%, finished at the time of the poll.
C16_Witness ==
    /\ LastSettled("t1")
    /\ ~last.ledgerOk
    /\ last.actual > last.quota
    /\ last.persistOk
    /\ ~last.err
    /\ last.info.Progress = ""
    /\ store["t1"].Status = TaskStatusSuccess
    /\ store["t1"].Progress = "100%"
    /\ store["t1"].FinishTime = clock
    /\ ledger["t1"].logs = <<>>

\* a call of updateVideoSingleTask reaches adaptor.FetchTask in this step
PollStarts ==
    /\ \E t \in DOMAIN attempts[1] : attempts'[1][t] # attempts[1][t]
    /\ last'.op = "poll"
    /\ last'.kind # "nil"

\* C17: once the context of the invocation is cancelled, no further call of
\* updateVideoSingleTask (and so no fetch) is started for the task ids and
\* channels that remain.
C17_CancelStopsPolls == [][ctxDone => ~PollStarts]_vars

\* what the user has been debited for task t so far, the reservation included
Charged(t) == StartBalance - ledger[t].userQuota

\* the poll of task t applies a settlement delta computed from a task.quota
\* that is not what the user has been charged: an adjustment already made is
\* made again
StaleSettle(t) ==
    /\ Settled(t)
    /\ ledger'[t] # ledger[t]
    /\ taskM[Poller][t].Quota # Charged(t)

\* C18: as long as no two invocations have been in flight at the same time, no
\* Success settlement adjusts the user a second time for the same task; a
\* second adjustment needs two overlapping passes that loaded the same task.quota.
C18_SerialSettlesOnce ==
    [][\A t \in DOMAIN store : StaleSettle(t) => overlapped]_vars

\* C18 witness: poller 1 settled reserved 2 against actualQuota 3 and stored it;
\* poller 2, which had loaded task.quota 2 before that, debited the same delta
\* again.
C18_Witness ==
    /\ overlapped
    /\ last.op = "poll"
    /\ last.poller = 2
    /\ last.task = "t1"
    /\ last.quota = 2
    /\ last.actual = 3
    /\ ~last.persistOk
    /\ store["t1"].Quota = 3
    /\ store["t1"].Status = TaskStatusSuccess
    /\ ledger["t1"].logs = <<ConsumeLog(1), ConsumeLog(1)>>
    /\ Charged("t1") = 4

\* C19: for a task that has not been refunded for Failure, every poll that
\* finds task.quota equal to what the user has been charged for the task leaves
\* it so, also when the debit or credit of the poll fails; and a Failure refund
\* of such a task never credits more than the user has been charged.
C19_QuotaIsNetCharge ==
    [][\A t \in DOMAIN store :
         /\ last'.op = "poll"
         /\ last'.task = t
         /\ last'.kind \in {"envelope", "adaptor"}
         /\ ledger[t].refunds = 0
         /\ taskM[Poller][t].Quota = Charged(t)
         => /\ ledger'[t].refunds = 0 => taskM'[Poller][t].Quota = Charged(t)'
            /\ ledger'[t].userQuota - ledger[t].userQuota <= Charged(t)]_vars

\* the poll of task t is the retry of a poll whose task.Update() failed: the
\* stored row is still as submitted, the ledger already holds the billing effect
\* of that earlier poll, and the fetched result would apply the same effect
LostUpdateRetry(t) ==
    /\ Applied(t)
    /\ store[t].Status = TaskStatusSubmitted
    /\ taskM[Poller][t] = store[t]
    /\ ledger[t].logs # <<>>
    /\ LET e == ledger[t].logs[Len(ledger[t].logs)]
           q == store[t].Quota
       IN  \/ Yields(t, TaskStatusFailure) /\ e = SystemLog(q, "refund")
           \/ Settled(t) /\ e = ConsumeLog(last'.actual - q)
           \/ Settled(t) /\ e = SystemLog(q - last'.actual, "adjust")

\* C20: the pass after a failed task.Update() reloads the row, sees the same
\* report and brings the row up to date without touching the ledger again.
C20_RetryAppliesOnce ==
    [][\A t \in DOMAIN store :
         LostUpdateRetry(t) =>
            /\ ledger'[t] = ledger[t]
            /\ last'.persistOk => store'[t].Status = last'.info.Status]_vars

====
